---- MODULE Spec2Model ----
(***************************************************************************)
(* State-machine model of src/main.py: the job-board poller.               *)
(*                                                                         *)
(*   - text helpers (str.split, str.strip, str.upper, " ".join, `in`)      *)
(*   - format_notification (duration parsing and the summary line)         *)
(*   - safe_click (bounded retry around scroll + click)                    *)
(*   - process_rows and main_loop (the poll cycle)                         *)
(*                                                                         *)
(* Text is modelled as a sequence of one-character strings, so that the    *)
(* conversions the program performs on it are computed, not assumed.       *)
(* A duration `diff_hours` is held as its exact value times HOUR (that is, *)
(* in seconds), so that comparisons with 6 and 7 hours are exact.          *)
(***************************************************************************)
EXTENDS Integers, Sequences, FiniteSets, TLC

VARIABLES
    \* ---- format_notification, called on its own (SpecFormat)
    f_row,          \* the row dict passed in
    f_case,         \* how the row's time text was built (start/end time of day)
    f_ret,          \* <<>>, then <<the returned (message, short_loc, diff_hours)>>
    \* ---- safe_click (SpecClick)
    sc_retries,     \* parameter `retries`
    sc_scroll,      \* parameter `scroll`
    sc_fail,        \* the target: how many of its first attempts fail
    sc_pc,          \* position inside safe_click
    sc_i,           \* loop index of `for _ in range(retries)`
    sc_ret,         \* returned value: "True" or "False"; None before the return
    sc_log,         \* driver calls made so far, in order
    \* ---- module globals (lines 12-21)
    allowed_locations,        \* list parsed from ALLOWED_LOCS
    allowed_classifications,  \* list parsed from ALLOWED_CLS
    has_creds,      \* BOT_TOKEN and CHAT_ID are both set
    \* ---- the environment: the site and its latencies
    env_site,       \* the listings (sequences of row elements) the page may show
    env_delay,      \* the delays (s) a wait or a POST may take
    env_volatile,   \* the cells the page may remove while a row is being read
    page,           \* the row elements in the DOM now
    clock,          \* time.time(), in seconds
    \* ---- main_loop
    duration_seconds,
    interval_seconds,
    start_time,
    ml_pc,          \* position inside main_loop
    \* ---- process_rows
    pr_pc,          \* position inside process_rows
    rows,           \* element handles returned by query_selector_all
    row_data_list,
    pr_k,           \* index of the running for loop (1-based)
    out,            \* lines printed by this cycle
    sent,           \* send_notification calls of this cycle
    \* ---- history
    cycle_starts,   \* elapsed time at each call of process_rows
    cycle_ends,     \* elapsed time and outcome at each return of process_rows
    outcome,        \* how this cycle's filter trigger and row wait went
    raised,         \* handles whose extraction raised in this cycle
    notified_before \* rows send_notification was called for in earlier cycles

fmtVars   == <<f_row, f_case, f_ret>>
clickVars == <<sc_retries, sc_scroll, sc_fail, sc_pc, sc_i, sc_ret, sc_log>>
confVars  == <<allowed_locations, allowed_classifications, has_creds>>
envVars   == <<env_site, env_delay, env_volatile>>
loopVars  == <<duration_seconds, interval_seconds, start_time, ml_pc>>
rowsVars  == <<pr_pc, rows, row_data_list, pr_k, out, sent>>
histVars  == <<cycle_starts, cycle_ends, outcome, raised, notified_before>>
pollVars  == <<confVars, envVars, page, clock, loopVars, rowsVars, histVars>>
vars      == <<fmtVars, clickVars, pollVars>>

None == "None"

\* ------------------------------------------------------------------------
\* Text helpers
\* ------------------------------------------------------------------------
LowerChars == <<"a","b","c","d","e","f","g","h","i","j","k","l","m","n","o","p","q","r","s","t","u","v","w","x","y","z">>
UpperChars == <<"A","B","C","D","E","F","G","H","I","J","K","L","M","N","O","P","Q","R","S","T","U","V","W","X","Y","Z">>
DigitChars == <<"0","1","2","3","4","5","6","7","8","9">>

IsSpace(c) == c \in {" ", "\n", "\t"}

IsDigit(c) == \E i \in 1..Len(DigitChars) : DigitChars[i] = c

DigitVal(c) == (CHOOSE i \in 1..Len(DigitChars) : DigitChars[i] = c) - 1

\* str.upper(), one character
UpperChar(c) ==
    IF \E i \in 1..Len(LowerChars) : LowerChars[i] = c
    THEN UpperChars[CHOOSE i \in 1..Len(LowerChars) : LowerChars[i] = c]
    ELSE c

\* str.upper()
Upper(s) == [i \in 1..Len(s) |-> UpperChar(s[i])]

RECURSIVE LStrip(_)
LStrip(s) ==
    IF s # <<>> /\ IsSpace(Head(s)) THEN LStrip(Tail(s)) ELSE s

RECURSIVE RStrip(_)
RStrip(s) ==
    IF s # <<>> /\ IsSpace(s[Len(s)]) THEN RStrip(SubSeq(s, 1, Len(s) - 1)) ELSE s

\* str.strip()
Strip(s) == RStrip(LStrip(s))

RECURSIVE SplitAcc(_, _, _)
SplitAcc(s, cur, acc) ==
    IF s = <<>>
    THEN IF cur = <<>> THEN acc ELSE Append(acc, cur)
    ELSE IF IsSpace(Head(s))
         THEN SplitAcc(Tail(s), <<>>, IF cur = <<>> THEN acc ELSE Append(acc, cur))
         ELSE SplitAcc(Tail(s), Append(cur, Head(s)), acc)

\* str.split() with no argument: runs of whitespace separate, no empty tokens
Split(s) == SplitAcc(s, <<>>, <<>>)

RECURSIVE Join(_, _)
\* sep.join(tokens)
Join(tokens, sep) ==
    IF tokens = <<>> THEN <<>>
    ELSE IF Len(tokens) = 1 THEN tokens[1]
    ELSE tokens[1] \o sep \o Join(Tail(tokens), sep)

\* tokens[:n]
PrefixAll(tokens, n) == tokens

Prefix(tokens, n) == SubSeq(tokens, 1, IF Len(tokens) < n THEN Len(tokens) ELSE n)

\* `sub in s` on strings
Contains(sub, s) ==
    \E i \in 0..(Len(s) - Len(sub)) : SubSeq(s, i + 1, i + Len(sub)) = sub

RECURSIVE Digits(_)
\* str(n) for n >= 0
Digits(n) ==
    IF n < 10 THEN <<DigitChars[n + 1]>>
    ELSE Digits(n \div 10) \o <<DigitChars[(n % 10) + 1]>>

\* ------------------------------------------------------------------------
\* format_notification
\* ------------------------------------------------------------------------
HOUR == 3600

SentinelHours == 7

ErrorHours == 0

ParseError == -1

\* %I of strptime: 1[0-2] | 0[1-9] | [1-9]
ParseI(t) ==
    IF Len(t) = 2 /\ t[1] = "1" /\ t[2] \in {"0", "1", "2"} THEN 10 + DigitVal(t[2])
    ELSE IF Len(t) = 2 /\ t[1] = "0" /\ IsDigit(t[2]) /\ t[2] # "0" THEN DigitVal(t[2])
    ELSE IF Len(t) = 1 /\ IsDigit(t[1]) /\ t[1] # "0" THEN DigitVal(t[1])
    ELSE ParseError

\* %M of strptime: [0-5]\d | \d
ParseM(t) ==
    IF Len(t) = 2 /\ IsDigit(t[1]) /\ DigitVal(t[1]) <= 5 /\ IsDigit(t[2])
    THEN 10 * DigitVal(t[1]) + DigitVal(t[2])
    ELSE IF Len(t) = 1 /\ IsDigit(t[1]) THEN DigitVal(t[1])
    ELSE ParseError

\* %p of strptime: am | pm, any case
ParseP(t) ==
    IF Upper(t) = <<"A", "M">> THEN "am"
    ELSE IF Upper(t) = <<"P", "M">> THEN "pm"
    ELSE "bad"

\* the 24-hour hour strptime derives from %I and %p
Hour24PmNoTwelve(hour, ampm) ==
    IF ampm = "am" THEN (IF hour = 12 THEN 0 ELSE hour) ELSE hour + 12

Hour24(hour, ampm) ==
    IF ampm = "am"
    THEN IF hour = 12 THEN 0 ELSE hour
    ELSE IF hour # 12 THEN hour + 12 ELSE hour

\* datetime.strptime(s, "%I:%M %p"), as minutes since midnight (the date is
\* always 1900-01-01), or ParseError for ValueError
Strptime(s) ==
    LET parts == Split(s) IN
    IF Len(parts) # 2 THEN ParseError
    ELSE LET hm == parts[1]
             colons == {i \in 1..Len(hm) : hm[i] = ":"}
         IN IF colons = {} THEN ParseError
            ELSE LET p == CHOOSE i \in colons : \A j \in colons : i <= j
                     hour == ParseI(SubSeq(hm, 1, p - 1))
                     minute == ParseM(SubSeq(hm, p + 1, Len(hm)))
                     ampm == ParseP(parts[2])
                 IN IF hour = ParseError \/ minute = ParseError \/ ampm = "bad"
                    THEN ParseError
                    ELSE Hour24(hour, ampm) * 60 + minute

\* (end_dt - start_dt).seconds: a timedelta is normalised to
\* days + 0 <= seconds < 86400, and .seconds is that second component
TimedeltaTotalSeconds(end_dt, start_dt) == (end_dt - start_dt) * 60

TimedeltaSeconds(end_dt, start_dt) == ((end_dt - start_dt) * 60) % (24 * HOUR)

\* lines 46-57: diff_hours, times HOUR
DiffHoursNoInnerTry(time_parts) ==
    IF Len(time_parts) >= 4
    THEN LET start_dt == Strptime(time_parts[1] \o <<" ">> \o time_parts[2])
             end_dt == Strptime(time_parts[3] \o <<" ">> \o time_parts[4])
         IN IF start_dt = ParseError \/ end_dt = ParseError
            THEN ErrorHours * HOUR
            ELSE TimedeltaSeconds(end_dt, start_dt)
    ELSE SentinelHours * HOUR

DiffHours(time_parts) ==
    IF Len(time_parts) >= 4
    THEN LET start_str == time_parts[1] \o <<" ">> \o time_parts[2]
             end_str == time_parts[3] \o <<" ">> \o time_parts[4]
             start_dt == Strptime(start_str)
             end_dt == Strptime(end_str)
         IN IF start_dt = ParseError \/ end_dt = ParseError
            THEN SentinelHours * HOUR
            ELSE TimedeltaSeconds(end_dt, start_dt)
    ELSE SentinelHours * HOUR

\* f"{x:.1f}" for x = d / HOUR >= 0: x is rounded to tenths, an exact tie going
\* to the even tenth.  (A tie x.x5 is exact in binary floating point only for
\* quarter hours; the clock texts of the model keep to minutes for which d is
\* no other tie.)
Format1fAbs(d) ==
    LET q == d \div (HOUR \div 10)
        r == d % (HOUR \div 10)
        half == HOUR \div 20
        tenths == IF r > half \/ (r = half /\ q % 2 = 1) THEN q + 1 ELSE q
    IN Digits(tenths \div 10) \o <<".">> \o Digits(tenths % 10)

\* f"{diff_hours:.1f}"
Format1f(d) == IF d < 0 THEN <<"-">> \o Format1fAbs(0 - d) ELSE Format1fAbs(d)

RowKeys == {"date", "time", "classification", "location"}

ErrorTag == <<"[ERROR] Could not format notification">>

\* format_notification(row): [message, short_loc, diff_hours]
format_notification(row) ==
    IF RowKeys \subseteq DOMAIN row
    THEN LET short_loc == Join(Prefix(Split(row["location"]), 2), <<" ">>)
             classification == Strip(row["classification"])
             date_lines == Split(row["date"])
             date_str == IF date_lines # <<>> THEN date_lines[Len(date_lines)] ELSE <<>>
             diff_hours == DiffHours(Split(row["time"]))
             message == short_loc \o <<" ", "-", " ">> \o classification
                        \o <<" ", "-", " ">> \o date_str
                        \o <<" ", "-", " ">> \o Format1f(diff_hours)
                        \o <<" ", "h", "r", "s">>
         IN [message |-> message, short_loc |-> short_loc, diff_hours |-> diff_hours]
    ELSE [message |-> ErrorTag, short_loc |-> <<>>, diff_hours |-> ErrorHours * HOUR]

\* ------------------------------------------------------------------------
\* Rows handed to format_notification: the time text is written out from a
\* start and an end time of day, so that what the parser makes of it can be
\* compared with the times that were written.
\* ------------------------------------------------------------------------
MaxExtraTokens == 2

Hours == {4, 9, 12}

Minutes == {0, 30, 45}

Styles == {"plain", "padded", "lower"}

Clocks == [h : Hours, m : Minutes, pm : BOOLEAN]

\* minutes since midnight of a 12-hour clock reading
TimeOfDay(c) == ((c.h % 12) + (IF c.pm THEN 12 ELSE 0)) * 60 + c.m

\* the two tokens "H:MM" and "AM"/"PM" of a clock reading
ClockTokens(c, style) ==
    << (IF style = "padded" /\ c.h < 10 THEN <<"0">> ELSE <<>>) \o Digits(c.h)
         \o <<":">> \o Digits(c.m \div 10) \o Digits(c.m % 10),
       IF style = "lower"
       THEN (IF c.pm THEN <<"p", "m">> ELSE <<"a", "m">>)
       ELSE (IF c.pm THEN <<"P", "M">> ELSE <<"A", "M">>) >>

ExtraPool == << <<"E", "S", "T">>, <<"3", ":", "3", "0">>, <<"P", "M">> >>

ExtraTokens(n) == [i \in 1..n |-> ExtraPool[((i - 1) % Len(ExtraPool)) + 1]]

\* tokens that are neither a clock reading nor AM/PM
BadTokens ==
    { <<"1", "3", ":", "0", "0">>, <<"0", ":", "3", "0">>, <<"9", ":", "6", "0">>,
      <<"9", ".", "0", "0">>, <<"X", "M">>, <<"9", ":", "0", "0", "A", "M">> }

RangeCases ==
    [kind : {"range"}, start : Clocks, end : Clocks, style : Styles,
     extra : 0..MaxExtraTokens]

ShortCases ==
    [kind : {"short"}, start : Clocks, end : Clocks, style : {"plain"}, ntok : 0..3]

BadCases ==
    [kind : {"bad"}, start : Clocks, end : {[h |-> 3, m |-> 30, pm |-> TRUE]},
     style : {"plain"}, pos : 1..4, bad : BadTokens, extra : 0..MaxExtraTokens]

NoKeyCases == [kind : {"nokey"}, key : RowKeys]

TimeCases == RangeCases \cup ShortCases \cup BadCases \cup NoKeyCases

\* the whitespace-separated tokens of a case's time text
CaseTokens(c) ==
    LET four == ClockTokens(c.start, c.style) \o ClockTokens(c.end, c.style) IN
    IF c.kind = "range" THEN four \o ExtraTokens(c.extra)
    ELSE IF c.kind = "short" THEN SubSeq(four, 1, c.ntok)
    ELSE [four EXCEPT ![c.pos] = c.bad] \o ExtraTokens(c.extra)

LincolnSchool == <<"L","I","N","C","O","L","N"," ","E","L","E","M","E","N","T","A","R","Y"," ","S","C","H","O","O","L">>
JeffersonHigh == <<"J","e","f","f","e","r","s","o","n"," ","H","i","g","h">>
LongTermSub == <<"L","o","n","g"," ","T","e","r","m"," ","S","u","b">>
DailySub == <<"D","a","i","l","y"," ","S","u","b">>
DateCell == <<"T","u","e","\n","0","3","/","1","0","/","2","0","2","6">>

FullRow(loc, cls, date, time) ==
    [location |-> loc, classification |-> cls, date |-> date, time |-> time]

CaseRows(c) ==
    IF c.kind = "nokey"
    THEN { [k \in RowKeys \ {c.key} |-> LincolnSchool] }
    ELSE { FullRow(loc, LongTermSub, date, Join(CaseTokens(c), <<" ">>)) :
             loc \in {LincolnSchool, <<>>}, date \in {DateCell, <<>>} }

FormatInit ==
    /\ f_case \in TimeCases
    /\ f_row \in CaseRows(f_case)
    /\ f_ret = <<>>

\* message, short_loc, diff_hours = format_notification(row)
FormatCall ==
    /\ f_ret = <<>>
    /\ f_ret' = <<format_notification(f_row)>>
    /\ UNCHANGED <<f_row, f_case>>
    /\ UNCHANGED <<clickVars, pollVars>>

\* ------------------------------------------------------------------------
\* safe_click.  `force` is handed on to locator.click and decides nothing in
\* safe_click itself; whether an attempt fails is the target's doing.
\* ------------------------------------------------------------------------
MaxRetries == 6

MaxFail == 6

\* attempt j (counted from 1) of the target fails
AttemptFails(j) == j <= sc_fail

\* `for _ in range(retries)`: another iteration follows
RangeHasNextOffByOne(i, retries) == i + 1 < retries

RangeHasNext(i, retries) == i < retries

Call(name, ok) == [attempt |-> sc_i + 1, call |-> name, ok |-> ok]

ClickInit ==
    /\ sc_retries \in 0..MaxRetries
    /\ sc_scroll \in BOOLEAN
    /\ sc_fail \in 0..MaxFail
    /\ sc_pc = "for"
    /\ sc_i = 0
    /\ sc_ret = None
    /\ sc_log = <<>>

\* line 67: the loop head; line 75 when the range is exhausted
SafeClickFor ==
    /\ sc_pc = "for"
    /\ \/ /\ RangeHasNext(sc_i, sc_retries)
          /\ sc_pc' = (IF sc_scroll THEN "scroll" ELSE "click")
          /\ UNCHANGED sc_ret
       \/ /\ ~RangeHasNext(sc_i, sc_retries)
          /\ sc_pc' = "done"
          /\ sc_ret' = "False"
    /\ UNCHANGED <<sc_retries, sc_scroll, sc_fail, sc_i, sc_log>>
    /\ UNCHANGED <<fmtVars, pollVars>>

\* where control goes when the scroll of line 70 raises: the try of line 68
\* covers it, so to the except clause of line 73
ScrollFailIgnored == "click"

ScrollFailPc == "except"

\* line 70: await locator.scroll_into_view_if_needed()
SafeClickScroll ==
    /\ sc_pc = "scroll"
    /\ \/ /\ sc_log' = Append(sc_log, Call("scroll", TRUE))
          /\ sc_pc' = "click"
       \/ /\ AttemptFails(sc_i + 1)
          /\ sc_log' = Append(sc_log, Call("scroll", FALSE))
          /\ sc_pc' = ScrollFailPc
    /\ UNCHANGED <<sc_retries, sc_scroll, sc_fail, sc_i, sc_ret>>
    /\ UNCHANGED <<fmtVars, pollVars>>

\* lines 71-72: await locator.click(force=force); return True
SafeClickClick ==
    /\ sc_pc = "click"
    /\ \/ /\ ~AttemptFails(sc_i + 1)
          /\ sc_log' = Append(sc_log, Call("click", TRUE))
          /\ sc_pc' = "done"
          /\ sc_ret' = "True"
       \/ /\ AttemptFails(sc_i + 1)
          /\ sc_log' = Append(sc_log, Call("click", FALSE))
          /\ sc_pc' = "except"
          /\ UNCHANGED sc_ret
    /\ UNCHANGED <<sc_retries, sc_scroll, sc_fail, sc_i>>
    /\ UNCHANGED <<fmtVars, pollVars>>

\* lines 73-74: except Exception: await asyncio.sleep(0.2)
SafeClickExcept ==
    /\ sc_pc = "except"
    /\ sc_i' = sc_i + 1
    /\ sc_pc' = "for"
    /\ UNCHANGED <<sc_retries, sc_scroll, sc_fail, sc_ret, sc_log>>
    /\ UNCHANGED <<fmtVars, pollVars>>

ClickNext == SafeClickFor \/ SafeClickScroll \/ SafeClickClick \/ SafeClickExcept

\* ------------------------------------------------------------------------
\* Module globals: the allow-lists (lines 16-21)
\* ------------------------------------------------------------------------
RECURSIVE SplitOnAcc(_, _, _, _)
SplitOnAcc(s, ch, cur, acc) ==
    IF s = <<>> THEN Append(acc, cur)
    ELSE IF Head(s) = ch
         THEN SplitOnAcc(Tail(s), ch, <<>>, Append(acc, cur))
         ELSE SplitOnAcc(Tail(s), ch, Append(cur, Head(s)), acc)

\* s.split(ch): every separator splits, empty pieces are kept
SplitOn(s, ch) == SplitOnAcc(s, ch, <<>>, <<>>)

RECURSIVE StripNonEmpty(_)
StripNonEmpty(parts) ==
    IF parts = <<>> THEN <<>>
    ELSE IF Strip(Head(parts)) # <<>>
         THEN <<Strip(Head(parts))>> \o StripNonEmpty(Tail(parts))
         ELSE StripNonEmpty(Tail(parts))

\* [x.strip() for x in text.split(",") if x.strip()]
ParseCsv(text) == StripNonEmpty(SplitOn(text, ","))

\* values of ALLOWED_LOCS and ALLOWED_CLS
LocEnvs ==
    { <<>>, <<" ", ",", " ">>,
      <<"L","I","N","C","O","L","N">>,
      <<"J","E","F","F","E","R","S","O","N",","," ","L","I","N","C","O","L","N"," ",",">>,
      <<"L","i","n","c","o","l","n">> }

ClsEnvs ==
    { <<>>,
      <<"L","O","N","G"," ","T","E","R","M">>,
      <<"D","A","I","L","Y",",","L","O","N","G"," ","T","E","R","M">> }

\* further values of ALLOWED_LOCS and ALLOWED_CLS: another school, and
\* entries written in mixed case
MoreLocEnvs ==
    LocEnvs \cup { <<"J","E","F","F","E","R","S","O","N">>,
                   <<"L","i","n","c","o","l","n",",","J","E","F","F","E","R","S","O","N">> }

MoreClsEnvs == ClsEnvs \cup { <<"L","o","n","g"," ","T","e","r","m">> }

\* ------------------------------------------------------------------------
\* The page: a row element maps each cell key to <<>> (no such cell) or to
\* <<text>> (the cell, with its inner text)
\* ------------------------------------------------------------------------
MaxRows == 2

Cell(text) == <<text>>

NoCell == <<>>

Element(date, time, cls, loc) ==
    [date |-> date, time |-> time, classification |-> cls, location |-> loc]

Time730 == <<"8",":","0","0"," ","A","M"," ","3",":","3","0"," ","P","M"," ","E","S","T"," ","3",":","3","0"," ","P","M">>
Time600 == <<"9",":","0","0"," ","A","M"," ","3",":","0","0"," ","P","M">>
Time615 == <<"9",":","0","0"," ","A","M"," ","3",":","1","5"," ","P","M">>
TimeNight == <<"1","0",":","0","0"," ","P","M"," ","6",":","0","0"," ","A","M">>
TimeTbd == <<"T","B","D">>
LincolnPadded == <<" ">> \o LincolnSchool \o <<"\n">>

\* a long-term job at Lincoln, 7.5 hours
RefElement == Element(Cell(DateCell), Cell(Time730), Cell(LongTermSub), Cell(LincolnPadded))

\* row elements that differ from RefElement in one cell
RichElements ==
    { RefElement }
    \cup { [RefElement EXCEPT ![k] = NoCell] : k \in RowKeys }
    \cup { [RefElement EXCEPT !["time"] = Cell(t)] :
             t \in {Time600, Time615, TimeNight, TimeTbd} }
    \cup { [RefElement EXCEPT !["location"] = Cell(JeffersonHigh)],
           [RefElement EXCEPT !["classification"] = Cell(DailySub)] }

BasicElements == { RefElement, [RefElement EXCEPT !["location"] = NoCell] }

\* listings of at most MaxRows rows whose rows after the first are basic ones
Listings(first) ==
    { <<>> } \cup
    UNION { { <<f>> \o rest : f \in first, rest \in [1..n -> BasicElements] } :
            n \in 0..(MaxRows - 1) }

\* ------------------------------------------------------------------------
\* process_rows
\* ------------------------------------------------------------------------
MinDurationHours == 6

SelectorTimeout == 30

FilterSettle == 2

RowsTimeout == 2

\* lines 143-146: one field of row_obj
FieldNoneText(el, key) ==
    IF el[key] # NoCell THEN Strip(el[key][1]) ELSE <<"N", "o", "n", "e">>

Field(el, key) == IF el[key] # NoCell THEN Strip(el[key][1]) ELSE <<>>

\* lines 142-147: row_obj
RowObj(el) == [key \in RowKeys |-> Field(el, key)]

AnyIn(allowed, text) == \E i \in 1..Len(allowed) : Contains(allowed[i], text)

AllIn(allowed, text) == \A i \in 1..Len(allowed) : Contains(allowed[i], text)

\* lines 156-161: the condition under which send_notification is called
ShouldNotifyAtLeast(row, diff_hours) ==
    LET location_upper == Strip(Upper(row["location"]))
        classification == Strip(Upper(row["classification"]))
    IN /\ AnyIn(allowed_classifications, classification)
       /\ AnyIn(allowed_locations, location_upper)
       /\ diff_hours >= MinDurationHours * HOUR

ShouldNotifyAll(row, diff_hours) ==
    LET location_upper == Strip(Upper(row["location"]))
        classification == Strip(Upper(row["classification"]))
    IN /\ AllIn(allowed_classifications, classification)
       /\ AllIn(allowed_locations, location_upper)
       /\ diff_hours > MinDurationHours * HOUR

AnyInFolded(allowed, text) == \E i \in 1..Len(allowed) : Contains(Upper(allowed[i]), text)

ShouldNotifyFolded(row, diff_hours) ==
    LET location_upper == Strip(Upper(row["location"]))
        classification == Strip(Upper(row["classification"]))
    IN /\ AnyInFolded(allowed_classifications, classification)
       /\ AnyInFolded(allowed_locations, location_upper)
       /\ diff_hours > MinDurationHours * HOUR

ShouldNotifyOnce(row, diff_hours) ==
    LET location_upper == Strip(Upper(row["location"]))
        classification == Strip(Upper(row["classification"]))
    IN /\ AnyIn(allowed_classifications, classification)
       /\ AnyIn(allowed_locations, location_upper)
       /\ diff_hours > MinDurationHours * HOUR
       /\ row \notin notified_before

ShouldNotify(row, diff_hours) ==
    LET location_upper == Strip(Upper(row["location"]))
        classification == Strip(Upper(row["classification"]))
    IN /\ AnyIn(allowed_classifications, classification)
       /\ AnyIn(allowed_locations, location_upper)
       /\ diff_hours > MinDurationHours * HOUR

\* lines 26-36: how a call of send_notification can end; none raises
SendOutcomes ==
    IF ~has_creds THEN {"no_credentials"}
    ELSE {"delivered", "status_not_200", "post_raised"}

\* where control goes when the wait for the row selector raises (line 136):
\* to the except clause of line 165
RowsTimeoutSwallowed == "query_rows"

RowsTimeoutPropagates == "raise"

RowsTimeoutPc == "except"

\* line 131: await page.wait_for_selector("#apply-filter")
WaitFilter ==
    /\ ml_pc = "process_rows" /\ pr_pc = "wait_filter"
    /\ \/ /\ pr_pc' = "click_filter"
          /\ UNCHANGED <<clock, outcome>>
       \/ /\ \E d \in {0, SelectorTimeout} : clock' = clock + d
          /\ outcome' = "filter_failed"
          /\ pr_pc' = "except"
    /\ UNCHANGED <<confVars, envVars, page, loopVars, rows, row_data_list, pr_k,
                   out, sent, cycle_starts, cycle_ends, raised, notified_before>>
    /\ UNCHANGED <<fmtVars, clickVars>>

\* line 132: await page.click("#apply-filter"); the page shows a listing
ClickFilter ==
    /\ ml_pc = "process_rows" /\ pr_pc = "click_filter"
    /\ \/ /\ page' \in env_site
          /\ pr_pc' = "settle"
          /\ UNCHANGED outcome
       \/ /\ outcome' = "filter_failed"
          /\ pr_pc' = "except"
          /\ UNCHANGED page
    /\ UNCHANGED <<confVars, envVars, clock, loopVars, rows, row_data_list, pr_k,
                   out, sent, cycle_starts, cycle_ends, raised, notified_before>>
    /\ UNCHANGED <<fmtVars, clickVars>>

\* line 133: await page.wait_for_timeout(2000)
Settle ==
    /\ ml_pc = "process_rows" /\ pr_pc = "settle"
    /\ clock' = clock + FilterSettle
    /\ pr_pc' = "wait_rows"
    /\ UNCHANGED <<confVars, envVars, page, loopVars, rows, row_data_list, pr_k,
                   out, sent, histVars>>
    /\ UNCHANGED <<fmtVars, clickVars>>

\* line 136: await page.wait_for_selector("tr[id^='desktop-row-']", timeout=2000).
\* It returns once a row is visible; rows that are attached but not visible,
\* or no rows, end it with a timeout.
WaitRows ==
    /\ ml_pc = "process_rows" /\ pr_pc = "wait_rows"
    /\ \/ /\ page # <<>>
          /\ \E d \in env_delay : d < RowsTimeout /\ clock' = clock + d
          /\ pr_pc' = "query_rows"
          /\ UNCHANGED outcome
       \/ /\ clock' = clock + RowsTimeout
          /\ outcome' = "rows_timeout"
          /\ pr_pc' = RowsTimeoutPc
    /\ UNCHANGED <<confVars, envVars, page, loopVars, rows, row_data_list, pr_k,
                   out, sent, cycle_starts, cycle_ends, raised, notified_before>>
    /\ UNCHANGED <<fmtVars, clickVars>>

\* line 137: page.query_selector_all gives the handles of the matching
\* elements in document order; a handle is the element's position in the page
QuerySelectorAllReversed(p) == [i \in 1..Len(p) |-> Len(p) + 1 - i]

QuerySelectorAll(p) == [i \in 1..Len(p) |-> i]

\* lines 137-138: rows = await page.query_selector_all(...); row_data_list = []
QueryRows ==
    /\ ml_pc = "process_rows" /\ pr_pc = "query_rows"
    /\ rows' = QuerySelectorAll(page)
    /\ row_data_list' = <<>>
    /\ pr_k' = 1
    /\ pr_pc' = "extract"
    /\ UNCHANGED <<confVars, envVars, page, clock, loopVars, out, sent, histVars>>
    /\ UNCHANGED <<fmtVars, clickVars>>

\* where control goes when reading a row raises: the try of line 141 covers
\* it, so after the print of line 150 the loop of line 140 goes on
RowRaisedAborts == "except"

RowRaisedPc == "extract"

\* lines 140-150: one iteration of `for row in rows`.  Each field is read by a
\* presence check and then a second lookup of the cell; a cell the page removes
\* in between makes the second lookup return None, and reading its text raises.
ExtractRow ==
    /\ ml_pc = "process_rows" /\ pr_pc = "extract" /\ pr_k <= Len(rows)
    /\ \/ /\ row_data_list' = Append(row_data_list, RowObj(page[rows[pr_k]]))
          /\ UNCHANGED <<page, out, raised, pr_pc>>
       \/ /\ \E key \in env_volatile :
                /\ page[rows[pr_k]][key] # NoCell
                /\ page' = [page EXCEPT ![rows[pr_k]][key] = NoCell]
          /\ out' = Append(out, [line |-> "[ERROR] Failed to process row", k |-> pr_k])
          /\ raised' = raised \cup {rows[pr_k]}
          /\ pr_pc' = RowRaisedPc
          /\ UNCHANGED row_data_list
    /\ pr_k' = pr_k + 1
    /\ UNCHANGED <<confVars, envVars, clock, loopVars, rows, sent,
                   cycle_starts, cycle_ends, outcome, notified_before>>
    /\ UNCHANGED <<fmtVars, clickVars>>

\* line 152: print(f"[INFO] Found {len(row_data_list)} rows")
Found ==
    /\ ml_pc = "process_rows" /\ pr_pc = "extract" /\ pr_k > Len(rows)
    /\ out' = Append(out, [line |-> "[INFO] Found", k |-> Len(row_data_list)])
    /\ pr_k' = 1
    /\ pr_pc' = "notify"
    /\ UNCHANGED <<confVars, envVars, page, clock, loopVars, rows, row_data_list,
                   sent, histVars>>
    /\ UNCHANGED <<fmtVars, clickVars>>

\* line 155: print(message, flush=True), for row k of row_data_list
MessageLinesIfNotified(row, ret, k) ==
    IF ShouldNotify(row, ret.diff_hours)
    THEN << [line |-> ret.message, k |-> k] >>
    ELSE <<>>

MessageLines(row, ret, k) == << [line |-> ret.message, k |-> k] >>

\* where control goes when requests.post raises (line 32): the try of line 31
\* covers it, send_notification returns, and the loop of line 153 goes on
PostRaisedPropagates == "except"

PostRaisedPc == "notify"

\* lines 153-162: one iteration of `for row in row_data_list`.  Nothing in it
\* is awaited: requests.post blocks until it has an answer or raises.
HandleRow ==
    /\ ml_pc = "process_rows" /\ pr_pc = "notify" /\ pr_k <= Len(row_data_list)
    /\ LET row == row_data_list[pr_k]
           ret == format_notification(row)
       IN /\ out' = out \o MessageLines(row, ret, pr_k)
          /\ IF ShouldNotify(row, ret.diff_hours)
             THEN \E o \in SendOutcomes, d \in env_delay :
                     /\ sent' = Append(sent, [row |-> row, k |-> pr_k,
                                              message |-> ret.message, result |-> o])
                     /\ clock' = clock + (IF o = "no_credentials" THEN 0 ELSE d)
                     /\ pr_pc' = (IF o = "post_raised" THEN PostRaisedPc ELSE "notify")
             ELSE UNCHANGED <<sent, clock, pr_pc>>
    /\ pr_k' = pr_k + 1
    /\ UNCHANGED <<confVars, envVars, page, loopVars, rows, row_data_list,
                   histVars>>
    /\ UNCHANGED <<fmtVars, clickVars>>

\* the loop of line 153 is exhausted: process_rows returns
RowsDone ==
    /\ ml_pc = "process_rows" /\ pr_pc = "notify" /\ pr_k > Len(row_data_list)
    /\ pr_pc' = "return"
    /\ UNCHANGED <<confVars, envVars, page, clock, loopVars, rows, row_data_list,
                   pr_k, out, sent, histVars>>
    /\ UNCHANGED <<fmtVars, clickVars>>

\* lines 165-166: except Exception as e: print(...)
Except ==
    /\ ml_pc = "process_rows" /\ pr_pc = "except"
    /\ out' = Append(out, [line |-> "[ERROR] Processing rows failed", k |-> 0])
    /\ pr_pc' = "return"
    /\ UNCHANGED <<confVars, envVars, page, clock, loopVars, rows, row_data_list,
                   pr_k, sent, histVars>>
    /\ UNCHANGED <<fmtVars, clickVars>>

\* ------------------------------------------------------------------------
\* main_loop
\* ------------------------------------------------------------------------
\* line 172: time.time() - start_time < duration_seconds
BudgetLeftInclusive(elapsed, duration) == elapsed <= duration

BudgetLeftOrFirst(elapsed, duration) == elapsed < duration \/ elapsed = 0

BudgetLeft(elapsed, duration) == elapsed < duration

\* rows for which send_notification was called in this cycle
NotifiedRows == { sent[i].row : i \in 1..Len(sent) }

\* line 172, the loop head; line 173 starts the next cycle
While ==
    /\ ml_pc = "while"
    /\ \/ /\ BudgetLeft(clock - start_time, duration_seconds)
          /\ ml_pc' = "process_rows"
          /\ pr_pc' = "wait_filter"
          /\ cycle_starts' = Append(cycle_starts, clock - start_time)
       \/ /\ ~BudgetLeft(clock - start_time, duration_seconds)
          /\ ml_pc' = "done"
          /\ UNCHANGED <<pr_pc, cycle_starts>>
    /\ UNCHANGED <<confVars, envVars, page, clock, duration_seconds,
                   interval_seconds, start_time, rows, row_data_list, pr_k, out,
                   sent, cycle_ends, outcome, raised, notified_before>>
    /\ UNCHANGED <<fmtVars, clickVars>>

\* line 173: process_rows has returned; its locals are gone, and what the
\* cycle printed and sent passes into the history
Returned ==
    /\ ml_pc = "process_rows" /\ pr_pc = "return"
    /\ cycle_ends' = Append(cycle_ends, [at |-> clock - start_time, outcome |-> outcome])
    /\ notified_before' = notified_before \cup NotifiedRows
    /\ ml_pc' = "sleep"
    /\ pr_pc' = "idle"
    /\ rows' = <<>>
    /\ row_data_list' = <<>>
    /\ pr_k' = 0
    /\ out' = <<>>
    /\ sent' = <<>>
    /\ outcome' = "ok"
    /\ raised' = {}
    /\ UNCHANGED <<confVars, envVars, page, clock, duration_seconds,
                   interval_seconds, start_time, cycle_starts>>
    /\ UNCHANGED <<fmtVars, clickVars>>

\* line 174: await asyncio.sleep(interval_seconds)
Sleep ==
    /\ ml_pc = "sleep"
    /\ clock' = clock + interval_seconds
    /\ ml_pc' = "while"
    /\ UNCHANGED <<confVars, envVars, page, duration_seconds, interval_seconds,
                   start_time, rowsVars, histVars>>
    /\ UNCHANGED <<fmtVars, clickVars>>

PollNext ==
    \/ While \/ Returned \/ Sleep
    \/ WaitFilter \/ ClickFilter \/ Settle \/ WaitRows \/ QueryRows
    \/ ExtractRow \/ Found \/ HandleRow \/ RowsDone \/ Except

\* main_loop has just been called
PollStart ==
    /\ page = <<>>
    /\ clock = 0
    /\ start_time = clock
    /\ pr_pc = "idle"
    /\ rows = <<>>
    /\ row_data_list = <<>>
    /\ pr_k = 0
    /\ out = <<>>
    /\ sent = <<>>
    /\ cycle_starts = <<>>
    /\ cycle_ends = <<>>
    /\ outcome = "ok"
    /\ raised = {}
    /\ notified_before = {}

\* the poll of the reference scenario: 65 s budget, 30 s interval
PollInit ==
    /\ allowed_locations = ParseCsv(<<"L","I","N","C","O","L","N">>)
    /\ allowed_classifications = ParseCsv(<<"L","O","N","G"," ","T","E","R","M">>)
    /\ has_creds = TRUE
    /\ env_site = Listings(BasicElements)
    /\ env_delay = {0, 1}
    /\ env_volatile = {"time"}
    /\ duration_seconds = 65
    /\ interval_seconds = 30
    /\ ml_pc = "while"
    /\ PollStart

\* one short poll over every listing and configuration
RowsInit ==
    /\ \E locs \in LocEnvs : allowed_locations = ParseCsv(locs)
    /\ \E cls \in ClsEnvs : allowed_classifications = ParseCsv(cls)
    /\ has_creds \in BOOLEAN
    /\ env_site = Listings(RichElements)
    /\ env_delay = {0}
    /\ env_volatile = {"location"}
    /\ duration_seconds = 1
    /\ interval_seconds = 1
    /\ ml_pc = "while"
    /\ PollStart

\* a poll of up to two cycles over a page of one row or of MaxRows + 1 rows,
\* any of whose time and location cells the page may remove while the row is
\* read
ExtractInit ==
    /\ allowed_locations = ParseCsv(<<"L","I","N","C","O","L","N">>)
    /\ allowed_classifications = ParseCsv(<<"L","O","N","G"," ","T","E","R","M">>)
    /\ has_creds \in BOOLEAN
    /\ env_site = UNION { [1..n -> BasicElements] : n \in {1, MaxRows + 1} }
    /\ env_delay = {0}
    /\ env_volatile = {"time", "location"}
    /\ duration_seconds = 2
    /\ interval_seconds = 1
    /\ ml_pc = "while"
    /\ PollStart

\* one short poll over a page of one row, under every configuration
ConfigInit ==
    /\ \E locs \in MoreLocEnvs : allowed_locations = ParseCsv(locs)
    /\ \E cls \in MoreClsEnvs : allowed_classifications = ParseCsv(cls)
    /\ has_creds \in BOOLEAN
    /\ env_site = { <<e>> : e \in RichElements }
    /\ env_delay = {0}
    /\ env_volatile = {"location"}
    /\ duration_seconds = 1
    /\ interval_seconds = 1
    /\ ml_pc = "while"
    /\ PollStart

\* the duration budgets main_loop is called with
Budgets == {-1, 0, 3, 5}

\* polls under each budget, over a page of at most one row
BudgetInit ==
    /\ allowed_locations = ParseCsv(<<"L","I","N","C","O","L","N">>)
    /\ allowed_classifications = ParseCsv(<<"L","O","N","G"," ","T","E","R","M">>)
    /\ has_creds = TRUE
    /\ env_site = { <<>>, <<RefElement>>, << [RefElement EXCEPT !["time"] = Cell(TimeTbd)] >> }
    /\ env_delay = {0, 1}
    /\ env_volatile = {"time"}
    /\ duration_seconds \in Budgets
    /\ interval_seconds = 2
    /\ ml_pc = "while"
    /\ PollStart

FormatIdle == f_case = None /\ f_row = None /\ f_ret = <<>>

ClickIdle ==
    /\ sc_retries = 0 /\ sc_scroll = FALSE /\ sc_fail = 0
    /\ sc_pc = "done" /\ sc_i = 0 /\ sc_ret = None /\ sc_log = <<>>

PollIdle ==
    /\ allowed_locations = <<>> /\ allowed_classifications = <<>>
    /\ has_creds = FALSE
    /\ env_site = {} /\ env_delay = {} /\ env_volatile = {}
    /\ duration_seconds = 0 /\ interval_seconds = 0
    /\ PollStart /\ ml_pc = "done"

\* ------------------------------------------------------------------------
\* Specifications
\* ------------------------------------------------------------------------
InitFormat == FormatInit /\ ClickIdle /\ PollIdle

NextFormat == FormatCall

SpecFormat == InitFormat /\ [][NextFormat]_vars

InitClick == ClickInit /\ FormatIdle /\ PollIdle

SpecClick == InitClick /\ [][ClickNext]_vars

Init == PollInit /\ FormatIdle /\ ClickIdle

Next == PollNext

Spec == Init /\ [][Next]_vars

InitRows == RowsInit /\ FormatIdle /\ ClickIdle

SpecRows == InitRows /\ [][Next]_vars

InitConfig == ConfigInit /\ FormatIdle /\ ClickIdle

SpecConfig == InitConfig /\ [][Next]_vars

InitExtract == ExtractInit /\ FormatIdle /\ ClickIdle

SpecExtract == InitExtract /\ [][Next]_vars

InitBudget == BudgetInit /\ FormatIdle /\ ClickIdle

\* one iteration of the loop of line 153, told by its loop index alone
RowLoopAdvance ==
    /\ ml_pc = "process_rows" /\ pr_pc = "notify" /\ pr_k <= Len(row_data_list)
    /\ pr_k' = pr_k + 1

\* time advances and every driver call, POST and sleep returns or fails: a step
\* of the loop that can be taken is taken.  (The steps of HandleRow are those
\* of RowLoopAdvance, which is enabled exactly when HandleRow is.)
PollFairness ==
    /\ WF_vars(While \/ Returned \/ Sleep)
    /\ WF_vars(WaitFilter \/ ClickFilter \/ Settle \/ WaitRows \/ QueryRows)
    /\ WF_vars(ExtractRow \/ Found \/ RowsDone \/ Except)
    /\ WF_pr_k(RowLoopAdvance)

SpecBudget == InitBudget /\ [][Next]_vars /\ PollFairness

\* ------------------------------------------------------------------------
\* Properties of safe_click (under SpecClick)
\* ------------------------------------------------------------------------
Min(a, b) == IF a < b THEN a ELSE b

\* the attempts (loop iterations) in which a driver call was made
AttemptsMade == { sc_log[i].attempt : i \in 1..Len(sc_log) }

SafeClickReturned == sc_pc = "done" /\ sc_ret # None

\* C1: with retries = n >= 1 and a target whose first k attempts fail,
\* safe_click returns True iff k < n, makes exactly min(k + 1, n) attempts and
\* none after the first successful click; n = 5, k = 4 returns True, and a
\* target that always fails returns False after exactly 5 attempts.
C1_SafeClickRetries ==
    (SafeClickReturned /\ sc_retries >= 1) =>
        /\ (sc_ret = "True") <=> (sc_fail < sc_retries)
        /\ sc_ret \in {"True", "False"}
        /\ Cardinality(AttemptsMade) = Min(sc_fail + 1, sc_retries)
        /\ AttemptsMade = 1..Min(sc_fail + 1, sc_retries)
        /\ \A i \in 1..Len(sc_log) :
              (sc_log[i].call = "click" /\ sc_log[i].ok) => i = Len(sc_log)
        /\ (sc_retries = 5 /\ sc_fail = 4) => sc_ret = "True"
        /\ (sc_retries = 5 /\ sc_fail >= 5) =>
              (sc_ret = "False" /\ Cardinality(AttemptsMade) = 5)

\* a target that failed four times was clicked on the fifth of five attempts
C1_Witness ==
    /\ SafeClickReturned /\ sc_retries = 5 /\ sc_fail = 4 /\ sc_scroll
    /\ sc_ret = "True" /\ Cardinality(AttemptsMade) = 5

\* ------------------------------------------------------------------------
\* Properties of format_notification (under SpecFormat)
\* ------------------------------------------------------------------------
Formatted == f_ret # <<>>

FormattedRange == Formatted /\ f_case.kind = "range"

\* end time of day minus start time of day, in minutes, as the row's time
\* text was written
WrittenDiff == TimeOfDay(f_case.end) - TimeOfDay(f_case.start)

NineAm == [h |-> 9, m |-> 0, pm |-> FALSE]

FourPm == [h |-> 4, m |-> 0, pm |-> TRUE]

\* C7 as stated: for every time text of two valid 12-hour times, durationHours
\* is exactly end time of day minus start time of day.
C7_Original ==
    FormattedRange => f_ret[1].diff_hours = WrittenDiff * 60

\* C7, amended: durationHours is end minus start taken modulo 24 hours, which
\* is end minus start whenever the end is not earlier than the start (9:00 AM
\* to 4:00 PM gives 7.0); tokens past the fourth are ignored.
C7_DurationModuloDay ==
    FormattedRange =>
        /\ f_ret[1].diff_hours = (WrittenDiff % (24 * 60)) * 60
        /\ WrittenDiff >= 0 => f_ret[1].diff_hours = WrittenDiff * 60
        /\ (f_case.start = NineAm /\ f_case.end = FourPm) =>
              f_ret[1].diff_hours = 7 * HOUR
        /\ f_ret[1].diff_hours =
              format_notification(
                  [f_row EXCEPT !["time"] =
                      Join(CaseTokens([f_case EXCEPT !.extra = 0]), <<" ">>)]).diff_hours

\* 9:00 AM to 4:00 PM, followed by two more tokens, came out as 7 hours
C7_Witness ==
    /\ FormattedRange /\ f_case.start = NineAm /\ f_case.end = FourPm
    /\ f_case.extra = 2 /\ f_ret[1].diff_hours = 7 * HOUR

\* C8 as stated: for a range crossing midnight the difference is passed
\* through uncorrected, so durationHours is negative.
C8_Original ==
    (FormattedRange /\ WrittenDiff < 0) =>
        (f_ret[1].diff_hours = WrittenDiff * 60 /\ f_ret[1].diff_hours < 0)

\* C8, amended: for a range crossing midnight durationHours is the wrapped
\* difference, 24 hours plus (end - start): positive and below 24, never
\* negative.
C8_OvernightWraps ==
    (FormattedRange /\ WrittenDiff < 0) =>
        /\ f_ret[1].diff_hours = (24 * 60 + WrittenDiff) * 60
        /\ f_ret[1].diff_hours > 0
        /\ f_ret[1].diff_hours < 24 * HOUR

\* 9:00 PM to 4:00 AM came out as 7 hours
C8_Witness ==
    /\ FormattedRange
    /\ f_case.start = [h |-> 9, m |-> 0, pm |-> TRUE]
    /\ f_case.end = [h |-> 4, m |-> 0, pm |-> FALSE]
    /\ f_ret[1].diff_hours = 7 * HOUR

ShortLocWritten == IF f_row["location"] = <<>> THEN <<>>
                   ELSE <<"L","I","N","C","O","L","N"," ","E","L","E","M","E","N","T","A","R","Y">>

DateWritten == IF f_row["date"] = <<>> THEN <<>>
               ELSE <<"0","3","/","1","0","/","2","0","2","6">>

\* C9: for a row whose time text has fewer than 4 tokens, or whose start or
\* end pair is no 12-hour time, format_notification returns the sentinel 7.0
\* and the normally formatted message (no error-tagged result).
C9_SentinelOnParseFailure ==
    (Formatted /\ f_case.kind \in {"short", "bad"}) =>
        /\ f_ret[1].diff_hours = 7 * HOUR
        /\ f_ret[1].short_loc = ShortLocWritten
        /\ f_ret[1].message =
              ShortLocWritten \o <<" ","-"," ">>
              \o <<"L","o","n","g"," ","T","e","r","m"," ","S","u","b">>
              \o <<" ","-"," ">> \o DateWritten
              \o <<" ","-"," ","7",".","0"," ","h","r","s">>

\* a time text whose end pair is "13:00 PM" came out as the sentinel
C9_Witness ==
    /\ Formatted /\ f_case.kind = "bad" /\ f_case.pos = 3
    /\ f_case.bad = <<"1", "3", ":", "0", "0">>
    /\ f_ret[1].diff_hours = 7 * HOUR

\* ------------------------------------------------------------------------
\* Properties of the poll cycle (under Spec and SpecRows)
\* ------------------------------------------------------------------------
\* processing time of cycle k: from the call of process_rows to its return
ProcTime(k) == cycle_ends[k].at - cycle_starts[k]

\* C2 as stated: with a 65 s budget and a 30 s interval main_loop performs
\* exactly 3 cycles, however long a cycle's own processing takes.
C2_Original ==
    (ml_pc = "done" /\ duration_seconds = 65 /\ interval_seconds = 30) =>
        Len(cycle_starts) = 3

\* C2, amended: with a 65 s budget and a 30 s interval main_loop performs at
\* least 1 and at most 3 cycles; the first starts at 0 and each later one 30 s
\* after the previous one returned, so at 30 + d1 and 60 + d1 + d2 for
\* processing times d1, d2; the third cycle runs iff 60 + d1 + d2 < 65.
C2_PollCycles ==
    (duration_seconds = 65 /\ interval_seconds = 30) =>
        /\ Len(cycle_starts) <= 3
        /\ Len(cycle_ends) <= Len(cycle_starts)
        /\ Len(cycle_starts) <= Len(cycle_ends) + 1
        /\ \A k \in 1..Len(cycle_starts) :
              /\ cycle_starts[k] < 65
              /\ k = 1 => cycle_starts[k] = 0
              /\ k > 1 => cycle_starts[k] = cycle_ends[k - 1].at + 30
        /\ ml_pc = "done" =>
              /\ Len(cycle_starts) \in 1..3
              /\ Len(cycle_ends) = Len(cycle_starts)
              /\ Len(cycle_starts) = 3 <=>
                    (Len(cycle_ends) >= 2 /\ 60 + ProcTime(1) + ProcTime(2) < 65)

\* a run of three cycles, each taking 2 s, started them at 0, 32 and 64
C2_Witness ==
    /\ ml_pc = "done" /\ duration_seconds = 65 /\ interval_seconds = 30
    /\ cycle_starts = <<0, 32, 64>>

\* the entries of an allow-list
Entries(allowed) == { allowed[i] : i \in 1..Len(allowed) }

\* sub occurs in s
IsSubstring(sub, s) ==
    \E i \in 1..(Len(s) - Len(sub) + 1) : \A j \in 1..Len(sub) : s[i + j - 1] = sub[j]

\* the eligibility rule as the specification states it
Eligible(row) ==
    /\ \E a \in Entries(allowed_classifications) :
          IsSubstring(a, Upper(Strip(row["classification"])))
    /\ \E a \in Entries(allowed_locations) :
          IsSubstring(a, Upper(Strip(row["location"])))
    /\ format_notification(row).diff_hours > 6 * HOUR

\* the rows of row_data_list the second loop has dealt with
Handled ==
    IF pr_pc = "notify" THEN 1..(pr_k - 1)
    ELSE IF pr_pc = "return" THEN 1..Len(row_data_list)
    ELSE {}

NotifiedIndexes == { sent[i].k : i \in 1..Len(sent) }

\* the number of "[INFO] Found" lines: extraction passes completed
FoundLines == Cardinality({ i \in 1..Len(out) : out[i].line = "[INFO] Found" })

CycleOver == pr_pc = "return"

C4_BestEffort ==
    /\ outcome # "ok" =>
          /\ rows = <<>> /\ row_data_list = <<>> /\ sent = <<>>
          /\ pr_pc \in {"except", "return"}
          /\ ml_pc = "process_rows"
    /\ (CycleOver /\ outcome # "ok") =>
          out = << [line |-> "[ERROR] Processing rows failed", k |-> 0] >>
    /\ (ml_pc = "while" /\ cycle_ends # <<>>) =>
          clock - start_time = cycle_ends[Len(cycle_ends)].at + interval_seconds
    /\ (ml_pc = "process_rows" /\ Len(cycle_starts) >= 2) =>
          cycle_starts[Len(cycle_starts)]
             = cycle_ends[Len(cycle_starts) - 1].at + interval_seconds
    /\ ml_pc = "done" => clock - start_time >= duration_seconds

\* the row wait of the first cycle timed out with rows attached, and a second
\* cycle is running
C4_Witness ==
    /\ ml_pc = "process_rows" /\ Len(cycle_starts) = 2
    /\ cycle_ends[1].outcome = "rows_timeout"
    /\ page # <<>>

\* C5: a row is notified iff some allowed classification is a substring of
\* its upper-cased trimmed classification, some allowed location is a
\* substring of its upper-cased trimmed location, and its duration is
\* strictly above 6 hours; a duration of exactly 6 hours never notifies.
C5_NotifyIffEligible ==
    \A k \in Handled :
        /\ k \in NotifiedIndexes <=> Eligible(row_data_list[k])
        /\ format_notification(row_data_list[k]).diff_hours = 6 * HOUR
              => k \notin NotifiedIndexes
        /\ \A i \in 1..Len(sent) :
              sent[i].k = k => sent[i].row = row_data_list[k]

\* a Lincoln long-term row of exactly 6 hours was handled and not notified,
\* under allow-lists that match it, while the 7.5 hour row after it was
C5_Witness ==
    /\ CycleOver /\ Len(row_data_list) = 2
    /\ format_notification(row_data_list[1]).diff_hours = 6 * HOUR
    /\ format_notification(row_data_list[2]).diff_hours > 6 * HOUR
    /\ NotifiedIndexes = {2}

\* C6: with an empty allowed_classifications or an empty allowed_locations no
\* notification is ever sent.
C6_FailClosed ==
    (allowed_classifications = <<>> \/ allowed_locations = <<>>) =>
        (sent = <<>> /\ notified_before = {})

\* with no allowed location, a 7.5 hour long-term row at Lincoln was handled
\* under a matching classification list and nothing was sent
C6_Witness ==
    /\ allowed_locations = <<>> /\ allowed_classifications # <<>>
    /\ CycleOver /\ Len(row_data_list) >= 1 /\ sent = <<>>
    /\ row_data_list[1] = RowObj(RefElement)

\* the text extraction is to give for a cell of the model's pages
TrimmedText(text) == IF text = LincolnPadded THEN LincolnSchool ELSE text

\* C10: extraction over a page of N row elements (whose cells the page leaves
\* alone meanwhile) gives N records in row order; every record has the four
\* fields, a missing cell gives the empty text and a present one its trimmed
\* text; no row is dropped for a missing cell.
C10_ExtractKeepsRows ==
    (outcome = "ok" /\ raised = {} /\ pr_pc \in {"extract", "notify", "return"}) =>
        /\ pr_pc = "extract" => Len(row_data_list) = pr_k - 1
        /\ pr_pc # "extract" => Len(row_data_list) = Len(page)
        /\ \A i \in 1..Len(row_data_list) :
              /\ DOMAIN row_data_list[i] = RowKeys
              /\ \A key \in RowKeys :
                    row_data_list[i][key] =
                        IF page[i][key] = NoCell THEN <<>>
                        ELSE TrimmedText(page[i][key][1])

\* two row elements, the first without a time cell and the second without a
\* location cell, gave two records
C10_Witness ==
    /\ pr_pc = "notify" /\ raised = {} /\ Len(page) = 2
    /\ page[1]["time"] = NoCell /\ page[2]["location"] = NoCell
    /\ Len(row_data_list) = 2
    /\ row_data_list[1]["time"] = <<>> /\ row_data_list[2]["location"] = <<>>

\* ------------------------------------------------------------------------
\* Properties of row extraction on a live page (under SpecExtract)
\* ------------------------------------------------------------------------
\* the extraction loop is running or has run in this cycle
Extracting == pr_pc = "extract"

Extracted == outcome = "ok" /\ pr_pc \in {"notify", "return"}

\* C11: a cell absent when its text would be read, also one removed between
\* the presence check and the text read, gives the empty text and never a
\* failure: every row element read so far is in the result, with "" for each
\* field whose cell is absent.
C11_AbsentCellNeverFails ==
    Extracting =>
        /\ raised = {}
        /\ Len(row_data_list) = pr_k - 1
        /\ \A i \in 1..Len(row_data_list) : \A key \in RowKeys :
              page[i][key] = NoCell => row_data_list[i][key] = <<>>

\* the positions in the page of the row elements whose extraction did not raise
DomKept == SelectSeq([i \in 1..Len(page) |-> i], LAMBDA h : h \notin raised)

RowErrorLines == { i \in 1..Len(out) : out[i].line = "[ERROR] Failed to process row" }

\* C12: a row whose extraction raises is logged and left out, and only that
\* row: the result holds every other row element of the pass, before and after
\* it, in DOM order, and is a list (possibly empty) whose length is reported.
C12_RowFailureSkipsRow ==
    /\ Extracting =>
          /\ Len(row_data_list) = (pr_k - 1) - Cardinality(raised)
          /\ raised \subseteq 1..(pr_k - 1)
          /\ Cardinality(RowErrorLines) = Cardinality(raised)
    /\ Extracted =>
          /\ raised \subseteq 1..Len(page)
          /\ Len(row_data_list) = Len(page) - Cardinality(raised)
          /\ Len(row_data_list) = Len(DomKept)
          /\ \A i \in 1..Len(row_data_list) : \A key \in RowKeys :
                row_data_list[i][key] =
                    IF page[DomKept[i]][key] = NoCell THEN <<>>
                    ELSE TrimmedText(page[DomKept[i]][key][1])
          /\ Cardinality(RowErrorLines) = Cardinality(raised)
          /\ \A i \in RowErrorLines : out[i].k \in raised
          /\ \E i \in 1..Len(out) :
                out[i] = [line |-> "[INFO] Found", k |-> Len(row_data_list)]

\* of three row elements the middle one raised, and the first and the third
\* were extracted, in that order
C12_Witness ==
    /\ Extracted /\ Len(page) = 3 /\ raised = {2}
    /\ page[1]["location"] # NoCell /\ page[3]["location"] = NoCell
    /\ Len(row_data_list) = 2
    /\ row_data_list[1]["location"] = LincolnSchool
    /\ row_data_list[2]["location"] = <<>>

\* ------------------------------------------------------------------------
\* The reference scenario (under SpecConfig)
\* ------------------------------------------------------------------------
\* the row of the scenario, as extracted
RefRow ==
    [location |-> LincolnSchool, classification |-> LongTermSub,
     date |-> DateCell, time |-> Time730]

RefMessage ==
    <<"L","I","N","C","O","L","N"," ","E","L","E","M","E","N","T","A","R","Y"," ","-"," ","L","o","n","g"," ","T","e","r","m"," ","S","u","b"," ","-"," ","0","3","/","1","0","/","2","0","2","6"," ","-"," ","7",".","5"," ","h","r","s">>

\* the lines of `out` printed by the loop of line 153, one row at a time
RowLines ==
    { i \in 1..Len(out) :
        /\ \E j \in 1..(i - 1) : out[j].line = "[INFO] Found"
        /\ out[i].line # "[ERROR] Processing rows failed" }

LinesOf(k) == { i \in RowLines : out[i].k = k }

\* C13: the row LINCOLN ELEMENTARY SCHOOL / Long Term Sub / date ending in
\* 03/10/2026 / time "8:00 AM 3:30 PM EST 3:30 PM" gives short location
\* "LINCOLN ELEMENTARY", duration 7.5 and the message "LINCOLN ELEMENTARY -
\* Long Term Sub - 03/10/2026 - 7.5 hrs"; it is notified under allowed
\* locations {LINCOLN} and classifications {LONG TERM}, and not under allowed
\* locations {JEFFERSON}.
C13_ReferenceScenario ==
    \A k \in Handled :
        row_data_list[k] = RefRow =>
            /\ \A i \in LinesOf(k) : out[i].line = RefMessage
            /\ LinesOf(k) # {}
            /\ \A i \in 1..Len(sent) : sent[i].k = k => sent[i].message = RefMessage
            /\ format_notification(row_data_list[k]).short_loc
                  = <<"L","I","N","C","O","L","N"," ","E","L","E","M","E","N","T","A","R","Y">>
            /\ 2 * format_notification(row_data_list[k]).diff_hours = 15 * HOUR
            /\ (/\ allowed_locations = << <<"L","I","N","C","O","L","N">> >>
                /\ allowed_classifications = << <<"L","O","N","G"," ","T","E","R","M">> >>)
                  => k \in NotifiedIndexes
            /\ (/\ allowed_locations = << <<"J","E","F","F","E","R","S","O","N">> >>
                /\ allowed_classifications = << <<"L","O","N","G"," ","T","E","R","M">> >>)
                  => k \notin NotifiedIndexes

\* under allowed locations {LINCOLN} and classifications {LONG TERM} the
\* reference row was notified with the reference message
C13_Witness ==
    /\ CycleOver /\ Len(row_data_list) >= 1 /\ row_data_list[1] = RefRow
    /\ allowed_locations = << <<"L","I","N","C","O","L","N">> >>
    /\ allowed_classifications = << <<"L","O","N","G"," ","T","E","R","M">> >>
    /\ \E i \in 1..Len(sent) : sent[i].k = 1 /\ sent[i].message = RefMessage

\* ------------------------------------------------------------------------
\* Failure handling of safe_click (under SpecClick)
\* ------------------------------------------------------------------------
FailedCalls(name) ==
    { i \in 1..Len(sc_log) : sc_log[i].call = name /\ ~sc_log[i].ok }

ClickSucceeded ==
    sc_log # <<>> /\ sc_log[Len(sc_log)] = [attempt |-> sc_i + 1, call |-> "click", ok |-> TRUE]

\* C14: whatever fails in the scroll step and in the click step, safe_click
\* goes on to its return and returns a boolean; an attempt whose scroll failed
\* makes no click and counts as a failed attempt, and True is returned only
\* after a successful click.
C14_NeverPropagates ==
    /\ sc_pc \in {"for", "scroll", "click", "except", "done"}
    /\ sc_pc # "done" => (ENABLED ClickNext /\ sc_ret = None)
    /\ sc_i <= sc_retries
    /\ SafeClickReturned =>
          /\ sc_ret \in {"True", "False"}
          /\ sc_ret = "True" <=> ClickSucceeded
          /\ sc_ret = "False" => sc_i = sc_retries
    /\ \A i \in FailedCalls("scroll") : \A j \in 1..Len(sc_log) :
          sc_log[j].attempt = sc_log[i].attempt => j = i
    /\ \A i \in FailedCalls("scroll") \cup FailedCalls("click") :
          sc_log[i].attempt <= sc_i + (IF sc_pc = "except" THEN 1 ELSE 0)
    /\ Cardinality({ sc_log[i].attempt :
                       i \in FailedCalls("scroll") \cup FailedCalls("click") })
          = sc_i + (IF sc_pc = "except" THEN 1 ELSE 0)

\* the first attempt failed in its scroll, the second in its click, and the
\* third clicked: True was returned
C14_Witness ==
    /\ SafeClickReturned /\ sc_ret = "True" /\ sc_retries = 5
    /\ Len(sc_log) = 5
    /\ sc_log[1] = [attempt |-> 1, call |-> "scroll", ok |-> FALSE]
    /\ sc_log[3] = [attempt |-> 2, call |-> "click", ok |-> FALSE]
    /\ sc_log[5] = [attempt |-> 3, call |-> "click", ok |-> TRUE]

\* ------------------------------------------------------------------------
\* Logging and dispatch of a cycle (under Spec, SpecRows and SpecExtract)
\* ------------------------------------------------------------------------
\* C15: in every cycle exactly one line carrying the formatted message is
\* printed for each extracted row that has been handled, eligible or not,
\* notification sent or not, and no other row line is printed.
C15_OneLinePerRow ==
    /\ \A k \in Handled :
          /\ Cardinality(LinesOf(k)) = 1
          /\ \A i \in LinesOf(k) :
                out[i].line = format_notification(row_data_list[k]).message
    /\ \A i \in RowLines : out[i].k \in Handled
    /\ Cardinality(RowLines) = Cardinality(Handled)

\* in the second cycle a row whose POST was answered with a non-200 status
\* and a row that is not eligible have one line each
C15_Witness ==
    /\ CycleOver /\ Len(cycle_starts) = 2 /\ Len(row_data_list) = 2
    /\ Len(sent) = 1 /\ sent[1].k = 1 /\ sent[1].result = "status_not_200"
    /\ ~Eligible(row_data_list[2])
    /\ Cardinality(RowLines) = 2
    /\ out[Len(out) - 1].line = RefMessage

\* ------------------------------------------------------------------------
\* Termination and the budget check of main_loop (under SpecBudget)
\* ------------------------------------------------------------------------
Elapsed == clock - start_time

Stopped == ml_pc = "done"

InCycle == ml_pc \in {"process_rows", "sleep"}

C17_BudgetBetweenCycles ==
    /\ [](\A k \in 1..Len(cycle_starts) : cycle_starts[k] < duration_seconds)
    /\ [](duration_seconds <= 0 => (cycle_starts = <<>> /\ ~InCycle))
    /\ [][InCycle => ~Stopped']_vars
    /\ [][(ml_pc = "while" /\ Elapsed < duration_seconds) => ~Stopped']_vars
    /\ [][(ml_pc = "sleep" /\ ml_pc' # "sleep") =>
            (ml_pc' = "while" /\ clock' = clock + interval_seconds)]_vars
    /\ []((ml_pc = "while" /\ cycle_ends # <<>>) =>
            Elapsed = cycle_ends[Len(cycle_ends)].at + interval_seconds)
    /\ (ml_pc = "process_rows") ~> (ml_pc = "sleep")
    /\ (ml_pc = "sleep") ~> (ml_pc = "while")

\* under a budget of 3 s a cycle started at 2 s, ended at 6 s and was followed
\* by its whole sleep
C17_Witness ==
    /\ ml_pc = "while" /\ duration_seconds = 3 /\ Len(cycle_ends) = 2
    /\ cycle_starts[2] = 2 /\ cycle_ends[2].at = 6
    /\ Elapsed = 8

\* C18: within a cycle rows are handled one after another in DOM order: the
\* row lines and the notifications are in the order of their row elements, a
\* row's line and dispatch are complete before the next row's handling begins,
\* and a cycle starts only after the one before it has returned.
C18_SequentialDomOrder ==
    /\ \A i, j \in RowLines : i < j => out[i].k < out[j].k
    /\ \A i, j \in 1..Len(sent) : i < j => sent[i].k < sent[j].k
    /\ pr_pc \in {"notify", "return"} =>
          /\ Len(row_data_list) <= Len(DomKept)
          /\ \A i \in RowLines :
                /\ out[i].k \in Handled
                /\ out[i].line
                     = format_notification(RowObj(page[DomKept[out[i].k]])).message
          /\ \A i \in 1..Len(sent) :
                /\ sent[i].k \in Handled
                /\ sent[i].row = RowObj(page[DomKept[sent[i].k]])
          /\ \A k \in Handled :
                /\ LinesOf(k) # {}
                /\ Eligible(row_data_list[k]) => k \in NotifiedIndexes
    /\ pr_pc \notin {"notify", "return"} => (RowLines = {} /\ sent = <<>>)
    /\ Len(cycle_ends) <= Len(cycle_starts)
    /\ Len(cycle_starts) <= Len(cycle_ends) + 1
    /\ ml_pc = "process_rows" <=> Len(cycle_starts) = Len(cycle_ends) + 1
    /\ ml_pc # "process_rows" => pr_pc = "idle"
    /\ \A k \in 2..Len(cycle_starts) : cycle_starts[k] >= cycle_ends[k - 1].at

\* in a second cycle, of three row elements the first and the third were
\* notified, in that order, after three row lines
C18_Witness ==
    /\ CycleOver /\ Len(cycle_starts) = 2 /\ Len(page) = 3 /\ raised = {}
    /\ page[2]["location"] = NoCell
    /\ Cardinality(RowLines) = 3
    /\ Len(sent) = 2 /\ sent[1].k = 1 /\ sent[2].k = 3

SentFor(k) == { i \in 1..Len(sent) : sent[i].k = k }

\* the calls of send_notification that reached requests.post
PostsFor(k) == { i \in SentFor(k) : sent[i].result # "no_credentials" }

ProcessingFailedLines ==
    { i \in 1..Len(out) : out[i].line = "[ERROR] Processing rows failed" }

\* C19: a delivery that fails (non-200 answer, or the POST raising) and
\* missing credentials are absorbed by send_notification: at most one POST is
\* made per eligible row per cycle, none without credentials, nothing reaches
\* the except clause of process_rows, and the rows after it are still logged,
\* evaluated and notified.
C19_DeliveryFailureAbsorbed ==
    /\ \A k \in 1..Len(row_data_list) :
          /\ Cardinality(SentFor(k)) <= 1
          /\ Cardinality(PostsFor(k)) <= 1
          /\ ~has_creds => PostsFor(k) = {}
          /\ ~Eligible(row_data_list[k]) => SentFor(k) = {}
    /\ \A i \in 1..Len(sent) :
          sent[i].result \in
             (IF has_creds THEN {"delivered", "status_not_200", "post_raised"}
              ELSE {"no_credentials"})
    /\ sent # <<>> =>
          /\ pr_pc \in {"notify", "return"}
          /\ outcome = "ok"
          /\ ProcessingFailedLines = {}
    /\ (CycleOver /\ outcome = "ok") =>
          \A k \in 1..Len(row_data_list) :
              /\ Cardinality(LinesOf(k)) = 1
              /\ Eligible(row_data_list[k]) => Cardinality(SentFor(k)) = 1

\* the POST for the first of three rows raised, and the third row was still
\* logged and its notification delivered
C19_Witness ==
    /\ CycleOver /\ has_creds /\ Len(row_data_list) = 3
    /\ Len(sent) = 2
    /\ sent[1].k = 1 /\ sent[1].result = "post_raised"
    /\ sent[2].k = 3 /\ sent[2].result = "delivered"
    /\ Cardinality(LinesOf(3)) = 1

\* ------------------------------------------------------------------------
\* Case of the allow-list entries (under SpecConfig)
\* ------------------------------------------------------------------------
HasLower(text) ==
    \E i \in 1..Len(text) : \E j \in 1..Len(LowerChars) : text[i] = LowerChars[j]

AllHaveLower(allowed) == \A a \in Entries(allowed) : HasLower(a)

\* the allow-list entries that occur in the upper-cased trimmed cell text
Matching(allowed, text) ==
    { a \in Entries(allowed) : IsSubstring(a, Upper(Strip(text))) }

\* C20: allow-list entries are compared as configured with the upper-cased
\* row text: an entry holding a lowercase letter matches no row, a notified
\* row matched an entry without lowercase letters in each list, and when every
\* entry of either list holds a lowercase letter nothing is ever sent.
C20_EntriesCaseSensitive ==
    /\ \A k \in 1..Len(row_data_list) :
          /\ \A a \in Matching(allowed_locations, row_data_list[k]["location"]) :
                ~HasLower(a)
          /\ \A a \in Matching(allowed_classifications,
                                row_data_list[k]["classification"]) :
                ~HasLower(a)
    /\ \A i \in 1..Len(sent) :
          /\ \E a \in Matching(allowed_locations, sent[i].row["location"]) :
                ~HasLower(a)
          /\ \E a \in Matching(allowed_classifications, sent[i].row["classification"]) :
                ~HasLower(a)
    /\ (AllHaveLower(allowed_locations) \/ AllHaveLower(allowed_classifications)) =>
          (sent = <<>> /\ notified_before = {})

\* under the allowed location "Lincoln" and the allowed classification
\* "LONG TERM" the 7.5 hour long-term row at LINCOLN ELEMENTARY SCHOOL was
\* handled and nothing was sent
C20_Witness ==
    /\ CycleOver /\ Len(row_data_list) >= 1 /\ row_data_list[1] = RefRow
    /\ allowed_locations = << <<"L","i","n","c","o","l","n">> >>
    /\ allowed_classifications = << <<"L","O","N","G"," ","T","E","R","M">> >>
    /\ sent = <<>>

====
